---- MODULE Spec2Model ----
(***************************************************************************)
(* Release resolution and update pipeline of src-tauri/src/lib.rs.         *)
(*                                                                         *)
(* Strings are sequences of one-character strings, so that prefix          *)
(* stripping, substring search, slicing, version parsing and byte-wise     *)
(* comparison are computed the way the Rust code computes them.            *)
(* Option<T> is a sequence of length 0 (None) or 1 (Some).                 *)
(***************************************************************************)
EXTENDS Integers, Sequences, FiniteSets, TLC

VARIABLES
    now,        \* Utc::now(), in minutes
    cache,      \* CACHE: HashMap<String, CachedRelease>
    lock,       \* holder of the CACHE mutex guard (a one-element set), or {}
    poisoned,   \* the mutex was poisoned by a panic under the guard
    build,      \* compile-time target (target_os, target_arch)
    procs,      \* the state of each command invocation
    cmpIn,      \* inputs of a compare_versions call (pure-function specification)
    cmpOut,     \* its result
    scrapeIn,   \* response given to a try_scrape_releases_page call (pure-function
                \* specification)
    scrapeOut   \* its result

vars == <<now, cache, lock, poisoned, build, procs, cmpIn, cmpOut, scrapeIn, scrapeOut>>

(***************************************************************************)
(* Bounds of the model.                                                    *)
(***************************************************************************)
MaxTime == 10       \* the clock runs from 0 to MaxTime minutes
MaxMajor == 1       \* version fields drawn for compare_versions
MaxField == 10

(***************************************************************************)
(* String helpers.                                                         *)
(***************************************************************************)
Ascii == <<" ","!","\"","#","$","%","&","'","(",")","*","+",",","-",".","/","0","1","2","3","4","5","6","7","8","9",":",";","<","=",">","?","@","A","B","C","D","E","F","G","H","I","J","K","L","M","N","O","P","Q","R","S","T","U","V","W","X","Y","Z","[","\\","]","^","_","GRAVE","a","b","c","d","e","f","g","h","i","j","k","l","m","n","o","p","q","r","s","t","u","v","w","x","y","z","{","|","}","~">>

\* the byte value of an ASCII character (the grave accent, byte 96, is
\* written GRAVE)
CharCode(c) == 31 + (CHOOSE i \in 1..Len(Ascii) : Ascii[i] = c)

\* a < b for Rust &str: byte-wise lexicographic order
RECURSIVE StrLess(_, _)
StrLess(a, b) ==
    IF b = <<>> THEN FALSE
    ELSE IF a = <<>> THEN TRUE
    ELSE IF a[1] = b[1] THEN StrLess(Tail(a), Tail(b))
    ELSE CharCode(a[1]) < CharCode(b[1])

Min(S) == CHOOSE x \in S : \A y \in S : x <= y

\* the byte offsets (from 0) at which pat occurs in s
Occurrences(s, pat) ==
    {i \in 0..(Len(s) - Len(pat)) : SubSeq(s, i + 1, i + Len(pat)) = pat}

\* str::find: Some(offset of the first occurrence) or None
Find(s, pat) ==
    LET occ == Occurrences(s, pat)
    IN  IF occ = {} THEN <<>> ELSE <<Min(occ)>>

\* str::contains
Contains(s, pat) == Find(s, pat) # <<>>

\* str::split(sep) for a one-character separator
RECURSIVE Split(_, _)
Split(s, sep) ==
    LET i == Find(s, <<sep>>)
    IN  IF i = <<>> THEN <<s>>
        ELSE <<SubSeq(s, 1, i[1])>> \o Split(SubSeq(s, i[1] + 2, Len(s)), sep)

\* the decimal digits of n (format!("{}", n))
RECURSIVE ToDec(_)
ToDec(n) ==
    IF n < 10 THEN <<Ascii[17 + n]>>
    ELSE ToDec(n \div 10) \o <<Ascii[17 + (n % 10)]>>

(***************************************************************************)
(* String literals of the source.                                          *)
(***************************************************************************)
cache_key == "latest_release"

TagMarker == <<"/","G","o","d","i","1","3","/","m","i","r","r","o","r","/","r","e","l","e","a","s","e","s","/","t","a","g","/">>

TagPagePrefix == <<"h","t","t","p","s",":","/","/","g","i","t","h","u","b",".","c","o","m","/","G","o","d","i","1","3","/","m","i","r","r","o","r","/","r","e","l","e","a","s","e","s","/","t","a","g","/">>

ReleasesTag == <<"/","r","e","l","e","a","s","e","s","/","t","a","g","/">>

DownloadPrefix == <<"h","t","t","p","s",":","/","/","g","i","t","h","u","b",".","c","o","m","/","G","o","d","i","1","3","/","m","i","r","r","o","r","/","r","e","l","e","a","s","e","s","/","d","o","w","n","l","o","a","d","/">>

Aarch64Dmg == <<"m","i","r","r","o","r","_","0",".","1",".","0","_","a","a","r","c","h","6","4",".","d","m","g">>

X64Dmg == <<"m","i","r","r","o","r","_","0",".","1",".","0","_","x","6","4",".","d","m","g">>

MirrorSpace == <<"M","i","r","r","o","r"," ">>

ScrapeBody == <<"Retrieved from releases page">>

\* env!("CARGO_PKG_VERSION")
CurrentVersion == <<"0",".","1",".","0">>

\* cache lifetime in minutes
TTL == 10

\* bytes skipped after the offset of the marker
MarkerSkip == 29

(***************************************************************************)
(* VersionComparator: compare_versions.                                    *)
(***************************************************************************)
IsDigit(c) == c \in {"0","1","2","3","4","5","6","7","8","9"}

\* a numeric identifier of a version: digits, no leading zero
IsNumericId(f) ==
    /\ f # <<>>
    /\ \A i \in 1..Len(f) : IsDigit(f[i])
    /\ Len(f) > 1 => f[1] # "0"

RECURSIVE NumVal(_)
NumVal(f) ==
    IF f = <<>> THEN 0
    ELSE 10 * NumVal(SubSeq(f, 1, Len(f) - 1)) + (CharCode(f[Len(f)]) - 48)

\* semver::Version::parse on strings without pre-release ('-') or build
\* ('+') parts: Ok(major, minor, patch) or Err
VersionParse(s) ==
    LET parts == Split(s, ".")
    IN  IF Len(parts) = 3 /\ \A i \in 1..3 : IsNumericId(parts[i])
        THEN <<[major |-> NumVal(parts[1]), minor |-> NumVal(parts[2]),
                patch |-> NumVal(parts[3])]>>
        ELSE <<>>

\* Version's Ord: a > b
VersionGreater(a, b) ==
    \/ a.major > b.major
    \/ a.major = b.major /\ a.minor > b.minor
    \/ a.major = b.major /\ a.minor = b.minor /\ a.patch > b.patch

\* faulty variant of compare_versions: the strings are always compared as
\* strings
compare_versions_lexical(current, latest) ==
    current # latest /\ StrLess(current, latest)

\* true iff latest is newer than current
compare_versions(current, latest) ==
    LET current_ver == VersionParse(current)
        latest_ver == VersionParse(latest)
    IN  IF current_ver # <<>> /\ latest_ver # <<>>
        THEN VersionGreater(latest_ver[1], current_ver[1])
        ELSE current # latest /\ StrLess(current, latest)

\* tag_name.trim_start_matches('v')
RECURSIVE trim_start_matches_v(_)
trim_start_matches_v(s) ==
    IF s # <<>> /\ s[1] = "v" THEN trim_start_matches_v(Tail(s)) ELSE s

(***************************************************************************)
(* Secondary strategy: tag extraction from the releases page.              *)
(* The result is Some(tag), None, or a panic of the slice expression.      *)
(***************************************************************************)
extract_version_from_html(html) ==
    LET start == Find(html, TagMarker)
    IN  IF start = <<>> THEN [kind |-> "none", v |-> <<>>]
        ELSE IF start[1] + MarkerSkip > Len(html)
             THEN [kind |-> "panic", v |-> <<>>]
        ELSE LET substr == SubSeq(html, start[1] + MarkerSkip + 1, Len(html))
                 end == Find(substr, <<"\"">>)
             IN  IF end # <<>> /\ SubSeq(substr, 1, end[1]) # <<>>
                 THEN [kind |-> "some", v |-> SubSeq(substr, 1, end[1])]
                 ELSE [kind |-> "none", v |-> <<>>]

\* the record synthesized by try_scrape_releases_page
ScrapedRelease(version) ==
    [tag_name |-> version,
     html_url |-> TagPagePrefix \o version,
     name     |-> MirrorSpace \o version,
     body     |-> ScrapeBody]

(***************************************************************************)
(* Inputs: what the network, the file system and the process launcher can  *)
(* answer.                                                                 *)
(***************************************************************************)
\* one invocation of each command can be in flight: a check (a background
\* timer) racing a full update (the user)
Commands == {"check_for_updates", "trigger_update_check"}

Builds == {[os |-> "macos", arch |-> "aarch64"], [os |-> "other", arch |-> "x64"]}

TagV020 == <<"v","0",".","2",".","0">>
TagVV020 == <<"v","v","0",".","2",".","0">>
Tag010 == <<"0",".","1",".","0">>
DirectUrl == <<"h","t","t","p","s",":","/","/","d","l",".","e","x","a","m","p","l","e","/","m","i","r","r","o","r",".","d","m","g">>

ApiRelease(tag, url) ==
    [tag_name |-> tag, html_url |-> url, name |-> MirrorSpace \o tag,
     body |-> <<"notes">>]

\* bodies of the releases API that parse as a GitHubRelease
ApiReleases ==
    {ApiRelease(tg, TagPagePrefix \o tg) : tg \in {TagV020, Tag010}}
        \cup {ApiRelease(TagVV020, DirectUrl)}

\* responses of GET api.github.com/repos/Godi13/mirror/releases/latest:
\* sent = FALSE is a transport error or timeout, body = <<>> a body that
\* does not parse
ApiResponses ==
    {[sent |-> FALSE, status |-> 0, remaining |-> <<>>, body |-> <<>>],
     [sent |-> TRUE, status |-> 403, remaining |-> <<"0">>, body |-> <<>>],
     [sent |-> TRUE, status |-> 403, remaining |-> <<"59">>, body |-> <<>>],
     [sent |-> TRUE, status |-> 500, remaining |-> <<>>, body |-> <<>>],
     [sent |-> TRUE, status |-> 200, remaining |-> <<"59">>, body |-> <<>>]}
        \cup {[sent |-> TRUE, status |-> 200, remaining |-> <<"59">>, body |-> <<r>>] :
                r \in ApiReleases}

PageHead == <<"<","a"," ","h","r","e","f","=","\"">>
PageTail == <<"\"",">">>

\* bodies of the releases page
Pages ==
    {PageHead \o TagMarker \o TagV020 \o PageTail,    \* a link to tag v0.2.0
     PageHead \o TagMarker \o Tag010 \o PageTail,     \* a link to tag 0.1.0
     PageHead \o PageTail,                            \* no release link
     PageHead \o TagMarker \o TagV020,                \* cut before the quote
     PageHead \o TagMarker \o <<"v">> \o PageTail,    \* a one-character tag
     PageHead \o TagMarker}                           \* cut after the marker

\* responses of GET github.com/Godi13/mirror/releases/latest
PageResponses ==
    {[sent |-> FALSE, status |-> 0, html |-> <<>>],
     [sent |-> TRUE, status |-> 404, html |-> <<>>]}
        \cup {[sent |-> TRUE, status |-> 200, html |-> h] : h \in Pages}

\* responses of the HEAD probe
ProbeResponses ==
    {[sent |-> FALSE, status |-> 0], [sent |-> TRUE, status |-> 404],
     [sent |-> TRUE, status |-> 200]}

\* outcomes of the artifact download: the GET, reading the body, the file
\* write, the metadata call and the existence check
DownloadResponses ==
    {[sent |-> FALSE, status |-> 0, body |-> FALSE, written |-> FALSE, meta |-> FALSE, exists |-> FALSE],
     [sent |-> TRUE, status |-> 404, body |-> FALSE, written |-> FALSE, meta |-> FALSE, exists |-> FALSE],
     [sent |-> TRUE, status |-> 200, body |-> FALSE, written |-> FALSE, meta |-> FALSE, exists |-> FALSE],
     [sent |-> TRUE, status |-> 200, body |-> TRUE, written |-> FALSE, meta |-> FALSE, exists |-> FALSE],
     [sent |-> TRUE, status |-> 200, body |-> TRUE, written |-> TRUE, meta |-> FALSE, exists |-> FALSE],
     [sent |-> TRUE, status |-> 200, body |-> TRUE, written |-> TRUE, meta |-> TRUE, exists |-> FALSE],
     [sent |-> TRUE, status |-> 200, body |-> TRUE, written |-> TRUE, meta |-> TRUE, exists |-> TRUE]}

\* outcomes of Command::new("open").arg(file_path).output()
OpenOutcomes == {"spawn_failed", "exit_failure", "exit_success"}

\* StatusCode::is_success
is_success(status) == 200 <= status /\ status < 300

Ok(x) == [ok |-> TRUE, val |-> <<x>>, err |-> "none"]
Err(e) == [ok |-> FALSE, val |-> <<>>, err |-> e]

(***************************************************************************)
(* The resolution strategies.                                              *)
(***************************************************************************)
try_github_api(resp) ==
    IF ~resp.sent THEN Err("Transport")
    ELSE IF resp.status = 403 /\ resp.remaining = <<"0">> THEN Err("RateLimited")
    ELSE IF ~is_success(resp.status) THEN Err("StrategyFailed")
    ELSE IF resp.body = <<>> THEN Err("Parse")
    ELSE Ok(resp.body[1])

\* Ok(release), Err, or a panic inside extract_version_from_html
try_scrape_releases_page(resp) ==
    IF ~resp.sent THEN Err("Transport")
    ELSE IF ~is_success(resp.status) THEN Err("StrategyFailed")
    ELSE LET version == extract_version_from_html(resp.html)
         IN  IF version.kind = "panic" THEN Err("panic")
             ELSE IF version.kind = "some" THEN Ok(ScrapedRelease(version.v))
             ELSE Err("NoVersion")

(***************************************************************************)
(* Command invocations.                                                    *)
(***************************************************************************)
\* release: the record fetch_latest_release holds or has returned;
\* via: where it came from; apiErr: the primary strategy's error while the
\* secondary runs; trace: the calls made so far; failed: the error of
\* download_and_install_update; info: the version_info check_for_updates
\* returned (none for Err), which trigger_update_check
\* holds during the install; url: the download URL, built or used as it is;
\* window: how the invocation's cache check met a fresh entry ("locked": under
\* the guard, "unlocked": the lock was poisoned, "none": no fresh entry);
\* overtaken: a primary resolution has succeeded since such a check;
\* ret: the command's result
IdleProc ==
    [pc |-> "idle", release |-> <<>>, via |-> "none", apiErr |-> "none",
     failed |-> "none", trace |-> <<>>, info |-> <<>>, url |-> <<>>,
     window |-> "none", overtaken |-> FALSE, ret |-> <<>>]

\* the value a command returns: Ok (ok = TRUE) or Err, with the parts of its
\* message
Ret(ok, kind, info, err, link) ==
    [ok |-> ok, kind |-> kind, info |-> info, err |-> err, link |-> link]

Done(q, r) == [q EXCEPT !.pc = "done", !.ret = <<r>>]

\* faulty variant of VersionInfoOf: the link is never given
VersionInfoNoUrl(release) ==
    LET latest_version == trim_start_matches_v(release.tag_name)
    IN  [current |-> CurrentVersion,
         latest |-> latest_version,
         has_update |-> compare_versions(CurrentVersion, latest_version),
         download_url |-> <<>>]

\* faulty variant of VersionInfoOf: the link is given whether or not there is
\* an update
VersionInfoAlwaysUrl(release) ==
    LET latest_version == trim_start_matches_v(release.tag_name)
    IN  [current |-> CurrentVersion,
         latest |-> latest_version,
         has_update |-> compare_versions(CurrentVersion, latest_version),
         download_url |-> <<release.html_url>>]

\* the VersionInfo check_for_updates builds from a resolved release
VersionInfoOf(release) ==
    LET latest_version == trim_start_matches_v(release.tag_name)
        has_update == compare_versions(CurrentVersion, latest_version)
    IN  [current |-> CurrentVersion,
         latest |-> latest_version,
         has_update |-> has_update,
         download_url |-> IF has_update THEN <<release.html_url>> ELSE <<>>]

\* check_for_updates once fetch_latest_release has returned q.release
check_for_updates(q) ==
    IF q.release = <<>>
    THEN Ret(FALSE, "FetchFailed", <<>>, "AllSourcesFailed", <<>>)
    ELSE Ret(TRUE, "VersionInfo", <<VersionInfoOf(q.release[1])>>, "none", <<>>)

detect_platform == IF build.arch = "aarch64" THEN "aarch64" ELSE "x64"

\* the URL get_download_url_for_platform builds and probes
PlatformUrl(version, platform) ==
    DownloadPrefix \o version \o <<"/">>
        \o (IF platform = "aarch64" THEN Aarch64Dmg ELSE X64Dmg)

\* the version_info trigger_update_check holds
InfoOf(q) == q.info

\* faulty variant of InstallFailed: the install error is returned as an error
InstallFailedHard(q, e) ==
    Done([q EXCEPT !.failed = e], Ret(FALSE, "UpdateFailed", InfoOf(q), e, <<>>))

\* trigger_update_check after a failed download_and_install_update
InstallFailed(q, e) ==
    LET version_info == InfoOf(q)
    IN  IF version_info[1].download_url # <<>>
        THEN Done([q EXCEPT !.failed = e],
                  Ret(TRUE, "ManualDownload", version_info, e,
                      version_info[1].download_url))
        ELSE Done([q EXCEPT !.failed = e],
                  Ret(FALSE, "UpdateFailed", version_info, e, <<>>))

\* the download URL: the one get_download_url_for_platform builds for a
\* release page, the known URL otherwise
DownloadUrl(q) ==
    LET version_info == InfoOf(q)
    IN  IF Contains(version_info[1].download_url[1], ReleasesTag)
        THEN PlatformUrl(version_info[1].latest, detect_platform)
        ELSE version_info[1].download_url[1]

\* download_and_install_update up to its first network or file system call
StartDownload(q) ==
    LET version_info == InfoOf(q)
    IN  IF version_info[1].download_url = <<>> THEN InstallFailed(q, "NoDownloadUrl")
        ELSE IF Contains(version_info[1].download_url[1], ReleasesTag)
             THEN [q EXCEPT !.pc = "probe", !.trace = Append(@, "probe"),
                            !.url = <<DownloadUrl(q)>>]
        ELSE [q EXCEPT !.pc = "mkdir", !.url = <<DownloadUrl(q)>>]

\* faulty variant of trigger_update_check: a failed check is reported as "up to
\* date"
trigger_update_check_swallow(q, checked) ==
    IF ~checked.ok THEN Done(q, Ret(TRUE, "UpToDate", <<>>, "none", <<>>))
    ELSE IF checked.info[1].has_update THEN StartDownload(q)
    ELSE Done(q, Ret(TRUE, "UpToDate", checked.info, "none", <<>>))

\* trigger_update_check once check_for_updates has returned checked
trigger_update_check(q, checked) ==
    IF ~checked.ok THEN Done(q, Ret(FALSE, "CheckFailed", <<>>, checked.err, <<>>))
    ELSE IF checked.info[1].has_update THEN StartDownload(q)
    ELSE Done(q, Ret(TRUE, "UpToDate", checked.info, "none", <<>>))

\* faulty variant of Resolved: check_for_updates goes on to install the update
ResolvedInstalling(c, q) ==
    LET checked == check_for_updates(q)
    IN  trigger_update_check([q EXCEPT !.info = checked.info], checked)

\* command c continues once fetch_latest_release has returned q.release
Resolved(c, q) ==
    LET checked == check_for_updates(q)
        p == [q EXCEPT !.info = checked.info]
    IN  IF c = "check_for_updates" THEN Done(p, checked)
        ELSE trigger_update_check(p, checked)

\* faulty variant of Fresh: an entry of exactly ten minutes is still served
FreshInclusive == cache_key \in DOMAIN cache /\ cache[cache_key].cached_at >= now - TTL

\* the cached entry is present and younger than ten minutes
Fresh == cache_key \in DOMAIN cache /\ cache[cache_key].cached_at > now - TTL

\* faulty variant of CacheInsert: the record is replaced and the entry's
\* timestamp is kept
CacheInsertKeepStamp(release) ==
    (cache_key :> [release |-> release,
                   cached_at |-> IF cache_key \in DOMAIN cache
                                 THEN cache[cache_key].cached_at ELSE now]) @@ cache

CacheInsert(release) ==
    (cache_key :> [release |-> release, cached_at |-> now]) @@ cache

\* the instants at which the clock is read: 0, and the minutes from one
\* before the cache lifetime on
Instants == {t \in 0..MaxTime : t = 0 \/ t >= TTL - 1}

(***************************************************************************)
(* Actions.                                                                *)
(***************************************************************************)
\* history: a primary resolution has succeeded (its response has arrived, its
\* record is inserted) after the cache check of every invocation that made it
\* beside a fresh entry
Overtake(ps) ==
    [d \in Commands |->
        IF ps[d].window # "none" THEN [ps[d] EXCEPT !.overtaken = TRUE] ELSE ps[d]]

\* the host invokes command c
Invoke(c) ==
    /\ procs[c].pc = "idle"
    /\ procs' = [procs EXCEPT ![c] = [IdleProc EXCEPT !.pc = "read_lock"]]
    /\ UNCHANGED <<now, cache, lock, poisoned, build, cmpIn, cmpOut, scrapeIn, scrapeOut>>

\* CACHE.lock() of the cache check; a poisoned lock is a cache miss
AcquireRead(c) ==
    /\ procs[c].pc = "read_lock"
    /\ lock = {}
    /\ IF poisoned
       THEN /\ procs' = [procs EXCEPT ![c].pc = "api", ![c].trace = Append(@, "api"),
                                      ![c].window = IF Fresh THEN "unlocked" ELSE "none"]
            /\ lock' = lock
       ELSE /\ procs' = [procs EXCEPT ![c].pc = "reading"]
            /\ lock' = {c}
    /\ UNCHANGED <<now, cache, poisoned, build, cmpIn, cmpOut, scrapeIn, scrapeOut>>

\* faulty variant of ReadCache: on a miss the guard is kept across the request
ReadCacheKeepLock(c) ==
    /\ procs[c].pc = "reading"
    /\ IF Fresh
       THEN /\ procs' = [procs EXCEPT ![c] =
                   Resolved(c, [@ EXCEPT !.release = <<cache[cache_key].release>>,
                                         !.via = "cache", !.window = "locked"])]
            /\ lock' = {}
       ELSE /\ procs' = [procs EXCEPT ![c].pc = "api", ![c].trace = Append(@, "api")]
            /\ lock' = lock
    /\ UNCHANGED <<now, cache, poisoned, build, cmpIn, cmpOut, scrapeIn, scrapeOut>>

\* faulty variant of ReadCache: the entry is never served
ReadCacheRefetch(c) ==
    /\ procs[c].pc = "reading"
    /\ lock' = {}
    /\ procs' = [procs EXCEPT ![c].pc = "api", ![c].trace = Append(@, "api"),
                              ![c].window = IF Fresh THEN "locked" ELSE "none"]
    /\ UNCHANGED <<now, cache, poisoned, build, cmpIn, cmpOut, scrapeIn, scrapeOut>>

\* the cache check under the guard, which is dropped at its end
ReadCache(c) ==
    /\ procs[c].pc = "reading"
    /\ lock' = {}
    /\ IF Fresh
       THEN procs' = [procs EXCEPT ![c] =
                Resolved(c, [@ EXCEPT !.release = <<cache[cache_key].release>>,
                                      !.via = "cache", !.window = "locked"])]
       ELSE procs' = [procs EXCEPT ![c].pc = "api", ![c].trace = Append(@, "api")]
    /\ UNCHANGED <<now, cache, poisoned, build, cmpIn, cmpOut, scrapeIn, scrapeOut>>

\* a panic under the guard (Utc::now() and println! can panic) ends the
\* invocation and poisons the mutex
PanicLocked(c) ==
    /\ \/ procs[c].pc = "reading" /\ cache_key \in DOMAIN cache
       \/ procs[c].pc = "writing"
    /\ lock' = {}
    /\ poisoned' = TRUE
    /\ procs' = [procs EXCEPT ![c].pc = "panicked"]
    /\ UNCHANGED <<now, cache, build, cmpIn, cmpOut, scrapeIn, scrapeOut>>

\* faulty variant of ApiDone: a failed primary request ends the resolution
\* without the secondary strategy
ApiDoneNoFallback(c, resp) ==
    /\ procs[c].pc = "api"
    /\ LET r == try_github_api(resp)
       IN  procs' = IF r.ok
                    THEN Overtake([procs EXCEPT ![c] =
                             [@ EXCEPT !.pc = "write_lock", !.release = r.val,
                                       !.via = "api"]])
                    ELSE [procs EXCEPT ![c] = Resolved(c, [@ EXCEPT !.via = "failed"])]
    /\ UNCHANGED <<now, cache, lock, poisoned, build, cmpIn, cmpOut, scrapeIn, scrapeOut>>

\* the primary strategy's request completes
ApiDone(c, resp) ==
    /\ procs[c].pc = "api"
    /\ LET r == try_github_api(resp)
       IN  procs' = IF r.ok
                    THEN Overtake([procs EXCEPT ![c] =
                             [@ EXCEPT !.pc = "write_lock", !.release = r.val,
                                       !.via = "api"]])
                    ELSE [procs EXCEPT ![c] =
                             [@ EXCEPT !.pc = "scrape", !.apiErr = r.err,
                                       !.trace = Append(@, "scrape")]]
    /\ UNCHANGED <<now, cache, lock, poisoned, build, cmpIn, cmpOut, scrapeIn, scrapeOut>>

\* faulty variant of AcquireWrite: the lock result is unwrapped, so a poisoned
\* mutex panics the invocation
AcquireWriteUnwrap(c) ==
    /\ procs[c].pc = "write_lock"
    /\ lock = {}
    /\ IF poisoned
       THEN /\ procs' = [procs EXCEPT ![c].pc = "panicked"]
            /\ lock' = lock
       ELSE /\ procs' = [procs EXCEPT ![c].pc = "writing"]
            /\ lock' = {c}
    /\ UNCHANGED <<now, cache, poisoned, build, cmpIn, cmpOut, scrapeIn, scrapeOut>>

\* CACHE.lock() of the cache update; a poisoned lock skips the update
AcquireWrite(c) ==
    /\ procs[c].pc = "write_lock"
    /\ lock = {}
    /\ IF poisoned
       THEN /\ procs' = [procs EXCEPT ![c] = Resolved(c, @)]
            /\ lock' = lock
       ELSE /\ procs' = [procs EXCEPT ![c].pc = "writing"]
            /\ lock' = {c}
    /\ UNCHANGED <<now, cache, poisoned, build, cmpIn, cmpOut, scrapeIn, scrapeOut>>

\* cache.insert under the guard, which is dropped at its end
WriteCache(c) ==
    /\ procs[c].pc = "writing"
    /\ cache' = CacheInsert(procs[c].release[1])
    /\ lock' = {}
    /\ procs' = Overtake([procs EXCEPT ![c] =
            Resolved(c, [@ EXCEPT !.trace = Append(@, "cache_write")])])
    /\ UNCHANGED <<now, poisoned, build, cmpIn, cmpOut, scrapeIn, scrapeOut>>

\* faulty variant of ScrapeDone: a scraped record is stored in the cache
ScrapeDoneCaching(c, resp) ==
    /\ procs[c].pc = "scrape"
    /\ LET r == try_scrape_releases_page(resp)
       IN  /\ procs' = [procs EXCEPT ![c] =
                  IF r.err = "panic" THEN [@ EXCEPT !.pc = "panicked"]
                  ELSE Resolved(c, IF r.ok
                                   THEN [@ EXCEPT !.release = r.val, !.via = "scrape",
                                                  !.apiErr = "none"]
                                   ELSE [@ EXCEPT !.via = "failed", !.apiErr = "none"])]
           /\ cache' = IF r.ok THEN CacheInsert(r.val[1]) ELSE cache
    /\ UNCHANGED <<now, lock, poisoned, build, cmpIn, cmpOut, scrapeIn, scrapeOut>>

\* the secondary strategy's request completes
ScrapeDone(c, resp) ==
    /\ procs[c].pc = "scrape"
    /\ LET r == try_scrape_releases_page(resp)
       IN  procs' = [procs EXCEPT ![c] =
               IF r.err = "panic" THEN [@ EXCEPT !.pc = "panicked"]
               ELSE Resolved(c, IF r.ok
                                THEN [@ EXCEPT !.release = r.val, !.via = "scrape",
                                               !.apiErr = "none"]
                                ELSE [@ EXCEPT !.via = "failed", !.apiErr = "none"])]
    /\ UNCHANGED <<now, cache, lock, poisoned, build, cmpIn, cmpOut, scrapeIn, scrapeOut>>

\* the HEAD probe of get_download_url_for_platform completes
ProbeDone(c, resp) ==
    /\ procs[c].pc = "probe"
    /\ procs' = [procs EXCEPT ![c] =
            IF ~resp.sent THEN InstallFailed(@, "Transport")
            ELSE IF is_success(resp.status) THEN [@ EXCEPT !.pc = "mkdir"]
            ELSE InstallFailed(@, "PlatformUnsupported")]
    /\ UNCHANGED <<now, cache, lock, poisoned, build, cmpIn, cmpOut, scrapeIn, scrapeOut>>

\* create_dir_all of the temporary directory, then the GET is issued
Mkdir(c, created) ==
    /\ procs[c].pc = "mkdir"
    /\ procs' = [procs EXCEPT ![c] =
            IF created
            THEN [@ EXCEPT !.pc = "download", !.trace = @ \o <<"mkdir", "get">>]
            ELSE InstallFailed([@ EXCEPT !.trace = Append(@, "mkdir")], "FileWriteFailed")]
    /\ UNCHANGED <<now, cache, lock, poisoned, build, cmpIn, cmpOut, scrapeIn, scrapeOut>>

\* faulty variant of DownloadDone: the file is not looked for after the write
DownloadDoneUnverified(c, resp) ==
    /\ procs[c].pc = "download"
    /\ procs' = [procs EXCEPT ![c] =
            IF ~resp.sent THEN InstallFailed(@, "Transport")
            ELSE IF ~is_success(resp.status) THEN InstallFailed(@, "DownloadFailed")
            ELSE IF ~resp.body THEN InstallFailed(@, "Transport")
            ELSE IF ~resp.written \/ ~resp.meta
                 THEN InstallFailed([@ EXCEPT !.trace = Append(@, "write")], "FileWriteFailed")
            ELSE IF build.os = "macos"
                 THEN [@ EXCEPT !.pc = "install", !.trace = Append(@, "write")]
            ELSE InstallFailed([@ EXCEPT !.trace = Append(@, "write")],
                               "InstallUnsupportedPlatform")]
    /\ UNCHANGED <<now, cache, lock, poisoned, build, cmpIn, cmpOut, scrapeIn, scrapeOut>>

\* download_file completes, then the existence check and install_update's
\* platform branch
DownloadDone(c, resp) ==
    /\ procs[c].pc = "download"
    /\ procs' = [procs EXCEPT ![c] =
            IF ~resp.sent THEN InstallFailed(@, "Transport")
            ELSE IF ~is_success(resp.status) THEN InstallFailed(@, "DownloadFailed")
            ELSE IF ~resp.body THEN InstallFailed(@, "Transport")
            ELSE IF ~resp.written \/ ~resp.meta
                 THEN InstallFailed([@ EXCEPT !.trace = Append(@, "write")], "FileWriteFailed")
            ELSE IF ~resp.exists
                 THEN InstallFailed([@ EXCEPT !.trace = @ \o <<"write", "exists">>],
                                    "FileMissing")
            ELSE IF build.os = "macos"
                 THEN [@ EXCEPT !.pc = "install", !.trace = @ \o <<"write", "exists">>]
            ELSE InstallFailed([@ EXCEPT !.trace = @ \o <<"write", "exists">>],
                               "InstallUnsupportedPlatform")]
    /\ UNCHANGED <<now, cache, lock, poisoned, build, cmpIn, cmpOut, scrapeIn, scrapeOut>>

\* install_update on macOS: open is run and its exit status read
InstallDone(c, out) ==
    /\ procs[c].pc = "install"
    /\ procs' = [procs EXCEPT ![c] =
            IF out = "spawn_failed" THEN InstallFailed(@, "InstallLaunchFailed")
            ELSE IF out = "exit_failure"
                 THEN InstallFailed([@ EXCEPT !.trace = Append(@, "launch")],
                                    "InstallLaunchFailed")
            ELSE Done([@ EXCEPT !.trace = Append(@, "launch")],
                      Ret(TRUE, "Installed", InfoOf(@), "none", <<>>))]
    /\ UNCHANGED <<now, cache, lock, poisoned, build, cmpIn, cmpOut, scrapeIn, scrapeOut>>

\* the command's result is delivered (or its task has panicked) and the host
\* can invoke it again
Return(c) ==
    /\ procs[c].pc \in {"done", "panicked"}
    /\ procs' = [procs EXCEPT ![c] = IdleProc]
    /\ UNCHANGED <<now, cache, lock, poisoned, build, cmpIn, cmpOut, scrapeIn, scrapeOut>>

\* time passes
Tick ==
    /\ \E t \in Instants : t > now /\ now' = t
    /\ UNCHANGED <<cache, lock, poisoned, build, procs, cmpIn, cmpOut, scrapeIn, scrapeOut>>

Init ==
    /\ now = 0
    /\ cache = <<>>
    /\ lock = {}
    /\ poisoned = FALSE
    /\ build \in Builds
    /\ procs = [c \in Commands |-> IdleProc]
    /\ cmpIn = <<>>
    /\ cmpOut = <<>>
    /\ scrapeIn = <<>>
    /\ scrapeOut = <<>>

Next ==
    \/ \E c \in Commands : Invoke(c)
    \/ \E c \in Commands : AcquireRead(c)
    \/ \E c \in Commands : ReadCache(c)
    \/ \E c \in Commands : PanicLocked(c)
    \/ \E c \in Commands, resp \in ApiResponses : ApiDone(c, resp)
    \/ \E c \in Commands : AcquireWrite(c)
    \/ \E c \in Commands : WriteCache(c)
    \/ \E c \in Commands, resp \in PageResponses : ScrapeDone(c, resp)
    \/ \E c \in Commands, resp \in ProbeResponses : ProbeDone(c, resp)
    \/ \E c \in Commands, created \in BOOLEAN : Mkdir(c, created)
    \/ \E c \in Commands, resp \in DownloadResponses : DownloadDone(c, resp)
    \/ \E c \in Commands, out \in OpenOutcomes : InstallDone(c, out)
    \/ \E c \in Commands : Return(c)
    \/ Tick

Spec == Init /\ [][Next]_vars

(***************************************************************************)
(* compare_versions as a pure function: the inputs are drawn in the        *)
(* initial state and one action applies it to them in both orders.         *)
(***************************************************************************)
\* major.minor.patch written in decimal, with the numbers it was written from
VersionString(major, minor, patch) ==
    [s |-> ToDec(major) \o <<".">> \o ToDec(minor) \o <<".">> \o ToDec(patch),
     n |-> <<<<major, minor, patch>>>>]

\* a string that is no major.minor.patch version
NoVersion(s) == [s |-> s, n |-> <<>>]

CmpInputs ==
    {VersionString(major, minor, patch) :
        major \in 0..MaxMajor, minor \in 0..MaxField, patch \in 0..MaxField}
    \cup {NoVersion(s) : s \in {<<"9">>,
            <<"1","0">>,
            <<"a","b","c">>,
            <<"a","b","d">>,
            <<"1",".","0">>,
            <<"0","1",".","2",".","3">>,
            <<"1",".","2",".","3",".","4">>,
            <<"v","1",".","0",".","0">>,
            <<>>,
            <<"1",".",".","0">>,
            <<"1",".","0",".","x">>}}

InitCmp ==
    /\ now = 0
    /\ cache = <<>>
    /\ lock = {}
    /\ poisoned = FALSE
    /\ build = [os |-> "macos", arch |-> "aarch64"]
    /\ procs = [c \in Commands |-> IdleProc]
    /\ cmpIn \in {<<a, b>> : a \in CmpInputs, b \in CmpInputs}
    /\ cmpOut = <<>>
    /\ scrapeIn = <<>>
    /\ scrapeOut = <<>>

Compare ==
    /\ cmpOut = <<>>
    /\ cmpOut' = <<[ab |-> compare_versions(cmpIn[1].s, cmpIn[2].s),
                    ba |-> compare_versions(cmpIn[2].s, cmpIn[1].s)]>>
    /\ UNCHANGED <<now, cache, lock, poisoned, build, procs, cmpIn, scrapeIn, scrapeOut>>

NextCmp == Compare

SpecCmp == InitCmp /\ [][NextCmp]_vars

(***************************************************************************)
(* try_scrape_releases_page as a pure function of the response: the         *)
(* response is drawn in the initial state and one action applies the        *)
(* strategy to it.                                                          *)
(***************************************************************************)
\* what precedes the link, the link's path, the tag, and what follows the tag
ScrapeHeads == {PageHead, <<>>}

ScrapePaths == {TagMarker, ReleasesTag, <<>>}

ScrapeTags ==
    {TagV020, Tag010, TagVV020, <<"v">>, <<>>, <<"1",".","2",".","3">>, <<"v","1">>}

ScrapeTails ==
    {PageTail, <<>>, <<"\"">>, PageTail \o PageHead \o TagMarker \o Tag010 \o PageTail}

ScrapeInputs ==
    {[sent |-> FALSE, status |-> 0, html |-> <<>>],
     [sent |-> TRUE, status |-> 404, html |-> <<>>]}
        \cup {[sent |-> TRUE, status |-> 200, html |-> hd \o pt \o tg \o tl] :
                hd \in ScrapeHeads, pt \in ScrapePaths, tg \in ScrapeTags,
                tl \in ScrapeTails}

InitScrape ==
    /\ now = 0
    /\ cache = <<>>
    /\ lock = {}
    /\ poisoned = FALSE
    /\ build = [os |-> "macos", arch |-> "aarch64"]
    /\ procs = [c \in Commands |-> IdleProc]
    /\ cmpIn = <<>>
    /\ cmpOut = <<>>
    /\ scrapeIn \in {<<resp>> : resp \in ScrapeInputs}
    /\ scrapeOut = <<>>

Scrape ==
    /\ scrapeOut = <<>>
    /\ scrapeOut' = <<try_scrape_releases_page(scrapeIn[1])>>
    /\ UNCHANGED <<now, cache, lock, poisoned, build, procs, cmpIn, cmpOut, scrapeIn>>

NextScrape == Scrape

SpecScrape == InitScrape /\ [][NextScrape]_vars

(***************************************************************************)
(* Properties.                                                             *)
(***************************************************************************)
Count(seq, x) == Cardinality({i \in DOMAIN seq : seq[i] = x})

\* the network calls fetch_latest_release has made in invocation q
ResolveCalls(q) == {i \in DOMAIN q.trace : q.trace[i] \in {"api", "scrape"}}

\* this step completes the cache check of command c (without a panic)
ReadDecided(c) ==
    /\ procs[c].pc \in {"read_lock", "reading"}
    /\ procs'[c].pc \notin {"read_lock", "reading", "panicked"}

\* the step serves c from the cache entry: that record, no network call
ServedFromCache(c) ==
    /\ procs'[c].via = "cache"
    /\ procs'[c].release = <<cache[cache_key].release>>
    /\ ResolveCalls(procs'[c]) = {}

\* the step ignores the entry and issues the primary request
GoesToPrimary(c) == procs'[c].pc = "api" /\ procs'[c].trace = <<"api">>

\* C1 as stated: every cache check completed while the cache holds an entry
\* written at T is served from the cache, without a network call, when
\* now - T < 10 minutes, and issues a new primary request when now - T >= 10
C1_Original ==
    [][\A c \in Commands :
        (ReadDecided(c) /\ cache_key \in DOMAIN cache) =>
            IF now - cache[cache_key].cached_at < TTL
            THEN ServedFromCache(c)
            ELSE GoesToPrimary(c)]_vars

\* C1 (amended): a cache check that acquires the lock and completes is served
\* from an entry younger than 10 minutes, with that record and no network
\* call, and ignores an entry of 10 minutes or more and issues the primary
\* request; a check that finds the lock poisoned issues the primary request
\* whatever the entry's age
C1_Freshness ==
    [][\A c \in Commands :
        /\ (/\ procs[c].pc = "reading"
            /\ procs'[c].pc \notin {"reading", "panicked"}
            /\ cache_key \in DOMAIN cache) =>
                IF now - cache[cache_key].cached_at < TTL
                THEN ServedFromCache(c)
                ELSE GoesToPrimary(c)
        /\ (procs[c].pc = "read_lock" /\ procs'[c].pc \notin {"read_lock", "reading"}) =>
                poisoned /\ GoesToPrimary(c)]_vars

\* one command was served from an entry 9 minutes old and stays done while,
\* at 10 minutes, the other ignores the entry and calls the API
C1_Witness ==
    /\ cache_key \in DOMAIN cache
    /\ now - cache[cache_key].cached_at = TTL
    /\ procs["check_for_updates"].pc = "done"
    /\ procs["check_for_updates"].via = "cache"
    /\ procs["check_for_updates"].release = <<cache[cache_key].release>>
    /\ procs["trigger_update_check"].pc = "api"

\* C2: in an invocation that misses the cache the primary strategy is
\* attempted exactly once and first, the secondary exactly once if and only
\* if the primary failed, and the all-sources-failed error is returned only
\* after both were attempted
C2_StrategyOrder ==
    \A c \in Commands :
        LET q == procs[c]
        IN  /\ Count(q.trace, "api") <= 1
            /\ Count(q.trace, "scrape") <= 1
            /\ q.via = "cache" => ResolveCalls(q) = {}
            /\ (q.pc \in {"api", "write_lock", "writing", "scrape", "probe", "mkdir",
                          "download", "install", "done"} /\ q.via # "cache") =>
                    (q.trace # <<>> /\ q.trace[1] = "api")
            /\ q.via = "api" => Count(q.trace, "scrape") = 0
            /\ (q.pc = "scrape" \/ q.via \in {"scrape", "failed"}) =>
                    (Len(q.trace) >= 2 /\ q.trace[1] = "api" /\ q.trace[2] = "scrape")
            /\ q.pc = "scrape" => q.apiErr # "none"
            /\ q.apiErr # "none" => Count(q.trace, "scrape") = 1
            /\ (q.pc = "done" /\ q.ret[1].err = "AllSourcesFailed") =>
                    (q.via = "failed" /\ q.trace = <<"api", "scrape">>)
            /\ (q.pc = "done" /\ q.via = "failed") =>
                    (~q.ret[1].ok /\ q.ret[1].err = "AllSourcesFailed")

\* after a rate-limited primary call the scrape is in flight, and the other
\* command has failed with both strategies attempted
C2_Witness ==
    /\ procs["check_for_updates"].pc = "scrape"
    /\ procs["check_for_updates"].apiErr = "RateLimited"
    /\ procs["trigger_update_check"].pc = "done"
    /\ procs["trigger_update_check"].via = "failed"

\* C3: the cache changes only in the insert of an invocation whose primary
\* strategy succeeded, which stores that invocation's API record with the
\* current time; every other step (a scrape result, a total failure, a cache
\* hit) leaves the entry as it is
C3_CacheFrame ==
    [][cache' # cache =>
        \E c \in Commands :
            /\ procs[c].pc = "writing"
            /\ procs[c].via = "api"
            /\ procs[c].release # <<>>
            /\ procs[c].release[1] \in ApiReleases
            /\ Count(procs'[c].trace, "cache_write") = 1
            /\ DOMAIN cache' = {cache_key}
            /\ cache'[cache_key] = [release |-> procs[c].release[1], cached_at |-> now]]_vars

\* a stale entry is still in place after one command returned a scraped
\* record and the other failed
C3_Witness ==
    /\ cache_key \in DOMAIN cache
    /\ now - cache[cache_key].cached_at >= TTL
    /\ procs["check_for_updates"].pc = "done"
    /\ procs["check_for_updates"].via = "scrape"
    /\ procs["check_for_updates"].release[1] # cache[cache_key].release
    /\ procs["trigger_update_check"].pc = "done"
    /\ procs["trigger_update_check"].via = "failed"

\* C4: once an update is available, a failure at any step of the download and
\* install sequence makes trigger_update_check return Ok with a message that
\* carries the failure text and the release page URL; every invocation that
\* found an update ends installed or with that message
C4_GracefulDegrade ==
    \A c \in Commands :
        LET q == procs[c]
        IN  /\ q.failed # "none" =>
                /\ c = "trigger_update_check"
                /\ q.pc = "done"
                /\ q.release # <<>>
                /\ q.ret[1].ok
                /\ q.ret[1].kind = "ManualDownload"
                /\ q.ret[1].err = q.failed
                /\ q.ret[1].link = <<q.release[1].html_url>>
            /\ (/\ c = "trigger_update_check"
                /\ q.pc = "done"
                /\ q.release # <<>>
                /\ compare_versions(CurrentVersion, trim_start_matches_v(q.release[1].tag_name))) =>
                    /\ q.ret[1].ok
                    /\ \/ q.ret[1].kind = "Installed" /\ q.failed = "none"
                       \/ q.ret[1].kind = "ManualDownload" /\ q.failed # "none"

\* current version 0.1.0, resolved tag v0.2.0, no artifact for the platform
C4_Witness ==
    LET q == procs["trigger_update_check"]
    IN  /\ q.pc = "done"
        /\ q.release # <<>>
        /\ q.release[1].tag_name = TagV020
        /\ q.failed = "PlatformUnsupported"
        /\ q.ret[1].ok
        /\ q.ret[1].link = <<TagPagePrefix \o TagV020>>

\* C5: when the resolution fails both commands return an error, without a
\* record, a version or a link, and the invocation has made no call beyond the
\* two strategies
C5_ResolveFailure ==
    \A c \in Commands :
        LET q == procs[c]
        IN  (q.pc = "done" /\ q.via = "failed") =>
                /\ ~q.ret[1].ok
                /\ q.ret[1].kind =
                       (IF c = "check_for_updates" THEN "FetchFailed" ELSE "CheckFailed")
                /\ q.ret[1].err = "AllSourcesFailed"
                /\ q.ret[1].info = <<>>
                /\ q.ret[1].link = <<>>
                /\ q.release = <<>>
                /\ q.failed = "none"
                /\ q.trace = <<"api", "scrape">>

\* both commands have failed while a stale entry sits in the cache
C5_Witness ==
    /\ cache_key \in DOMAIN cache
    /\ now - cache[cache_key].cached_at >= TTL
    /\ \A c \in Commands :
        procs[c].pc = "done" /\ procs[c].via = "failed" /\ ~procs[c].ret[1].ok

\* C6: the guard is held only in the cache check and the cache insert, never
\* by an invocation with a network call in flight
C6_LockScope ==
    /\ Cardinality(lock) <= 1
    /\ \A c \in Commands :
        /\ c \in lock <=> procs[c].pc \in {"reading", "writing"}
        /\ procs[c].pc \in {"api", "scrape", "probe", "download"} => c \notin lock

\* one command inserts under the guard while the other's API request is in
\* flight
C6_Witness ==
    /\ procs["check_for_updates"].pc = "api"
    /\ procs["trigger_update_check"].pc = "writing"
    /\ lock = {"trigger_update_check"}

\* C7: a lock acquisition that fails on a poisoned mutex does not abort the
\* resolution: at the cache check the primary request is issued, at the cache
\* insert the API record is returned and the cache is left as it is
C7_PoisonedLock ==
    [][\A c \in Commands :
        /\ (procs[c].pc = "read_lock" /\ poisoned /\ procs'[c] # procs[c]) =>
                GoesToPrimary(c) /\ cache' = cache
        /\ (procs[c].pc = "write_lock" /\ poisoned /\ procs'[c] # procs[c]) =>
                /\ cache' = cache
                /\ procs'[c].release = procs[c].release
                /\ procs'[c].via = "api"
                /\ procs'[c].pc \in {"done", "probe", "mkdir"}
                /\ procs'[c].pc = "done" => procs'[c].ret[1].ok
                /\ c = "check_for_updates" =>
                        /\ procs'[c].pc = "done"
                        /\ procs'[c].ret[1].info # <<>>
                        /\ procs'[c].ret[1].info[1].latest =
                               trim_start_matches_v(procs[c].release[1].tag_name)]_vars

\* with the mutex poisoned, one command returned the API record without an
\* insert and the other issued the primary request beside a fresh entry
C7_Witness ==
    /\ poisoned
    /\ cache_key \in DOMAIN cache
    /\ now - cache[cache_key].cached_at < TTL
    /\ procs["check_for_updates"].pc = "done"
    /\ procs["check_for_updates"].via = "api"
    /\ procs["check_for_updates"].ret[1].ok
    /\ Count(procs["check_for_updates"].trace, "cache_write") = 0
    /\ procs["check_for_updates"].release[1] # cache[cache_key].release
    /\ procs["trigger_update_check"].pc = "api"

\* C8: the VersionInfo check_for_updates returns has a download_url exactly
\* when has_update is true, it is then the html_url of the resolved release,
\* and has_update is compare_versions(current, latest)
C8_DecisionShape ==
    LET q == procs["check_for_updates"]
    IN  (q.pc = "done" /\ q.ret[1].ok) =>
            /\ q.ret[1].info # <<>>
            /\ q.release # <<>>
            /\ LET info == q.ret[1].info[1]
               IN  /\ info.download_url # <<>> <=> info.has_update
                   /\ info.has_update => info.download_url = <<q.release[1].html_url>>
                   /\ info.has_update <=> compare_versions(info.current, info.latest)
                   /\ info.current = CurrentVersion

\* check_for_updates has reported an update with its link
C8_Witness ==
    LET q == procs["check_for_updates"]
    IN  /\ q.pc = "done"
        /\ q.ret[1].ok
        /\ q.ret[1].info[1].has_update
        /\ q.ret[1].info[1].download_url = <<TagPagePrefix \o TagV020>>

\* the tag without one leading v
StripOneV(tg) == IF tg # <<>> /\ tg[1] = "v" THEN Tail(tg) ELSE tg

\* C9: the candidate version is the resolved tag without its first character
\* when that character is v, and the tag unchanged otherwise
C9_StripOneLeadingV ==
    \A c \in Commands :
        LET q == procs[c]
        IN  (q.pc = "done" /\ q.ret[1].info # <<>>) =>
                q.ret[1].info[1].latest = StripOneV(q.release[1].tag_name)

\* x > y in lexicographic byte order, by the first position that differs
LexGreater(x, y) ==
    \E i \in 1..Len(x) :
        /\ \A j \in 1..(i - 1) : j <= Len(y) /\ x[j] = y[j]
        /\ i > Len(y) \/ CharCode(x[i]) > CharCode(y[i])

\* x > y field by field, for triples of numbers
TripleGreater(x, y) ==
    \/ x[1] > y[1]
    \/ x[1] = y[1] /\ x[2] > y[2]
    \/ x[1] = y[1] /\ x[2] = y[2] /\ x[3] > y[3]

Checked(q) == q.pc \in {"probe", "mkdir", "download", "install", "done"}

\* the two invocations made their cache checks beside a fresh entry, and no
\* primary resolution has succeeded since the earlier of the two checks
SameWindow(p, q) ==
    /\ Checked(p) /\ Checked(q)
    /\ p.window # "none" /\ q.window # "none"
    /\ ~p.overtaken /\ ~q.overtaken

\* C12 as stated: two check_for_updates calls (the command's, and the one
\* trigger_update_check makes) within the cache window, with no successful
\* primary resolution in between, return the same VersionInfo, and the later
\* of the two has made no network call
C12_Original ==
    LET p == procs["check_for_updates"]
        q == procs["trigger_update_check"]
    IN  SameWindow(p, q) =>
            /\ p.info = q.info
            /\ ResolveCalls(p) = {} \/ ResolveCalls(q) = {}

\* C12 (amended): two check_for_updates calls within the cache window whose
\* cache checks acquired the lock, with no successful primary resolution in
\* between, return the same VersionInfo, that of the cached record, and
\* neither makes a network call
C12_Idempotence ==
    LET p == procs["check_for_updates"]
        q == procs["trigger_update_check"]
    IN  (SameWindow(p, q) /\ p.window = "locked" /\ q.window = "locked") =>
            /\ p.info = q.info
            /\ p.info # <<>>
            /\ p.ret[1].ok /\ p.ret[1].info = p.info
            /\ ResolveCalls(p) = {} /\ ResolveCalls(q) = {}

\* both calls were served the same entry, 9 minutes old, and report the update
C12_Witness ==
    LET p == procs["check_for_updates"]
        q == procs["trigger_update_check"]
    IN  /\ SameWindow(p, q) /\ p.window = "locked" /\ q.window = "locked"
        /\ cache_key \in DOMAIN cache
        /\ now - cache[cache_key].cached_at = TTL - 1
        /\ p.pc = "done"
        /\ q.pc = "probe"
        /\ p.info = q.info
        /\ p.info[1].has_update

\* C13: an invocation of check_for_updates makes no step of the download and
\* install sequence: no probe, no directory or file, no download, no launch;
\* it makes only the resolver's network calls and the cache insert
C13_CheckOnly ==
    LET q == procs["check_for_updates"]
    IN  /\ q.pc \notin {"probe", "mkdir", "download", "install"}
        /\ \A i \in DOMAIN q.trace : q.trace[i] \in {"api", "scrape", "cache_write"}
        /\ q.url = <<>>
        /\ q.failed = "none"
        /\ q.pc = "done" => q.ret[1].kind \in {"VersionInfo", "FetchFailed"}

\* check_for_updates has reported an update after an API call and the insert,
\* and nothing more
C13_Witness ==
    LET q == procs["check_for_updates"]
    IN  /\ q.pc = "done"
        /\ q.ret[1].ok
        /\ q.ret[1].info[1].has_update
        /\ q.ret[1].info[1].download_url # <<>>
        /\ q.trace = <<"api", "cache_write">>

\* the text between the end of the first marker and the next quotation
\* character: Some(text), or None when there is no marker, no quotation
\* character after it, or nothing in between
TagAfterMarker(html) ==
    LET starts == {i \in 1..(Len(html) - Len(TagMarker) + 1) :
                       SubSeq(html, i, i + Len(TagMarker) - 1) = TagMarker}
    IN  IF starts = {} THEN <<>>
        ELSE LET from == Min(starts) + Len(TagMarker)
                 quotes == {j \in from..Len(html) : html[j] = "\""}
             IN  IF quotes = {} \/ Min(quotes) = from THEN <<>>
                 ELSE <<SubSeq(html, from, Min(quotes) - 1)>>

\* C14: the secondary strategy returns as the tag the whole text between the
\* first marker and the next quotation character, with the tag URL built from
\* that text, and fails when there is no such text
C14_TagExtraction ==
    (scrapeOut # <<>> /\ scrapeIn[1].sent /\ is_success(scrapeIn[1].status)) =>
        LET tg == TagAfterMarker(scrapeIn[1].html)
        IN  IF tg # <<>>
            THEN /\ scrapeOut[1].ok
                 /\ scrapeOut[1].val[1].tag_name = tg[1]
                 /\ scrapeOut[1].val[1].html_url = TagPagePrefix \o tg[1]
            ELSE ~scrapeOut[1].ok

\* C15: for every page body the secondary strategy ends with a record or an
\* error value, never with a panic
C15_NoPanic ==
    scrapeOut # <<>> => scrapeOut[1].err # "panic"

IsInstallStep(x) == x \in {"probe", "mkdir", "get", "write", "exists", "launch"}

\* the steps of the download and install sequence invocation q has made
InstallSteps(q) == SelectSeq(q.trace, IsInstallStep)

IsPrefix(a, b) == Len(a) <= Len(b) /\ a = SubSeq(b, 1, Len(a))

Last(a) == a[Len(a)]

\* C16: the steps of the sequence are made in the order probe (when the URL
\* is resolved), create-directory, download, write, verify-exists, launch,
\* after the resolution; the first failing step ends the sequence at that
\* step: no download after a failed probe or without a URL, no launch without
\* a successful download, a written file and the existence check
C16_StepOrder ==
    \A c \in Commands :
        LET q == procs[c]
            steps == InstallSteps(q)
        IN  /\ \/ IsPrefix(steps, <<"probe", "mkdir", "get", "write", "exists", "launch">>)
               \/ IsPrefix(steps, <<"mkdir", "get", "write", "exists", "launch">>)
            /\ steps # <<>> => IsPrefix(SubSeq(q.trace, 1, Len(q.trace) - Len(steps)),
                                        <<"api", "cache_write">>)
                                \/ SubSeq(q.trace, 1, Len(q.trace) - Len(steps))
                                       = <<"api", "scrape">>
            /\ q.failed # "none" => q.pc = "done"
            /\ q.failed = "NoDownloadUrl" => steps = <<>>
            /\ q.failed = "PlatformUnsupported" => Last(steps) = "probe"
            /\ q.failed = "Transport" => Last(steps) \in {"probe", "get"}
            /\ q.failed = "DownloadFailed" => Last(steps) = "get"
            /\ q.failed = "FileWriteFailed" => Last(steps) \in {"mkdir", "write"}
            /\ q.failed = "FileMissing" => Last(steps) = "exists"
            /\ q.failed = "InstallUnsupportedPlatform" => Last(steps) = "exists"
            /\ q.failed = "InstallLaunchFailed" => Last(steps) \in {"exists", "launch"}
            /\ q.pc = "download" => Last(steps) = "get"
            /\ q.pc = "install" => Last(steps) = "exists"
            /\ (q.pc = "done" /\ q.ret[1].kind = "Installed") =>
                    (q.failed = "none" /\ Last(steps) = "launch")

\* the installer was launched at the end of the whole sequence, probe included
C16_Witness ==
    LET q == procs["trigger_update_check"]
    IN  /\ q.pc = "done"
        /\ q.ret[1].kind = "Installed"
        /\ InstallSteps(q) = <<"probe", "mkdir", "get", "write", "exists", "launch">>
        /\ procs["check_for_updates"].pc = "scrape"

\* the artifact's file name for the build's architecture
ArtifactName == IF build.arch = "aarch64" THEN Aarch64Dmg ELSE X64Dmg

\* C17: for a release page URL the download URL is the download path, the tag
\* of the resolved release and the architecture's file name, it is probed, and
\* the sequence goes on only if the probe succeeded, a failed probe naming the
\* platform; any other URL is used as it is, without a probe
C17_PlatformUrl ==
    LET q == procs["trigger_update_check"]
    IN  q.url # <<>> =>
            IF Contains(q.release[1].html_url, ReleasesTag)
            THEN /\ q.url = <<DownloadPrefix \o q.release[1].tag_name \o <<"/">>
                                 \o ArtifactName>>
                 /\ Count(q.trace, "probe") = 1
                 /\ q.failed = "PlatformUnsupported" => Last(InstallSteps(q)) = "probe"
            ELSE /\ q.url = <<q.release[1].html_url>>
                 /\ Count(q.trace, "probe") = 0

\* C18: once the handler process has been started the pipeline returns its
\* success message, whatever becomes of the process
C18_DetachedLaunch ==
    LET q == procs["trigger_update_check"]
    IN  (q.pc = "done" /\ Count(q.trace, "launch") = 1) =>
            /\ q.ret[1].kind = "Installed"
            /\ q.failed = "none"

\* C19: trigger_update_check returns an error exactly when the resolution
\* failed; with a record resolved it returns "up to date", "installed" or the
\* manual-download message, the link being known whenever there is an update,
\* so the error for a failed install without a link is never returned
C19_ErrorIffUnresolved ==
    LET q == procs["trigger_update_check"]
    IN  /\ (Checked(q) /\ q.info # <<>> /\ q.info[1].has_update) =>
                q.info[1].download_url # <<>>
        /\ q.pc = "done" =>
                /\ ~q.ret[1].ok <=> q.release = <<>>
                /\ q.release = <<>> <=> q.via = "failed"
                /\ ~q.ret[1].ok => q.ret[1].kind = "CheckFailed"
                /\ q.ret[1].ok =>
                        q.ret[1].kind \in {"UpToDate", "Installed", "ManualDownload"}

\* on a platform without an installer the failed install ends with the
\* manual-download message, while the other command's resolution has failed
C19_Witness ==
    LET q == procs["trigger_update_check"]
    IN  /\ q.pc = "done"
        /\ q.failed = "InstallUnsupportedPlatform"
        /\ q.ret[1].ok
        /\ q.ret[1].kind = "ManualDownload"
        /\ q.ret[1].link # <<>>
        /\ procs["check_for_updates"].pc = "done"
        /\ ~procs["check_for_updates"].ret[1].ok

\* C20: whatever the interleaving, the cache holds at most the entry of the
\* fixed key; an entry is written only under the guard, the record together
\* with the time of that write, so that no reader sees one without the other;
\* and the time stored never decreases from one write to the next
C20_CacheEntry ==
    [][/\ DOMAIN cache' \subseteq {cache_key}
       /\ \A c \in Commands : procs[c].pc \in {"reading", "writing"} => lock = {c}
       /\ cache' # cache =>
            \E c \in Commands :
                /\ lock = {c}
                /\ procs[c].pc = "writing"
                /\ \A d \in Commands \ {c} : procs[d].pc \notin {"reading", "writing"}
                /\ cache'[cache_key].release = procs[c].release[1]
                /\ cache'[cache_key].cached_at = now
                /\ cache_key \in DOMAIN cache =>
                        cache'[cache_key].cached_at >= cache[cache_key].cached_at]_vars

\* a second insert, at 10 minutes, has replaced the record the other command
\* was served from the first entry
C20_Witness ==
    LET p == procs["check_for_updates"]
        q == procs["trigger_update_check"]
    IN  /\ p.pc = "done"
        /\ p.via = "cache"
        /\ cache_key \in DOMAIN cache
        /\ cache[cache_key].cached_at = TTL
        /\ cache[cache_key].release # p.release[1]
        /\ Count(q.trace, "cache_write") = 1
        /\ q.release = <<cache[cache_key].release>>

\* C11: compare_versions("9", "10") is true
C11_NineTen ==
    (cmpOut # <<>> /\ cmpIn = <<NoVersion(<<"9">>), NoVersion(<<"1","0">>)>>) =>
        cmpOut[1].ab

====
